---- MODULE Spec2Model ----
(***************************************************************************)
(* Model of src/mcp-client/client.py: main, MCPClient.connect_to_server,   *)
(* MCPClient.chat_loop, MCPClient.process_query and MCPClient.cleanup.     *)
(* Every remote call (stdio transport, MCP session, Anthropic API) is a    *)
(* suspension point of the coroutine and is one action of the model; its   *)
(* result is chosen by the environment.                                    *)
(* A Python str is a sequence of tokens (one-character or opaque strings), *)
(* so that joining, trimming and lower-casing are computed, not assumed.   *)
(***************************************************************************)
EXTENDS Integers, Sequences, FiniteSets, TLC

\* ------------------------------------------------------------ bounds ----
\* Longest content list of one model response.
MaxBlocks == 2
\* Number of input lines the chat loop reads in one run of main.
MaxInputs == 2
\* Number of cleanup() calls a caller makes on one client.
MaxCleanups == 2

\* ------------------------------------------------- environment values ----
NL == "\n"
SP == " "

\* sys.argv[1:]: no argument, or one server script path (stem, extension).
Argvs == { <<>>, <<<<"server", ".py">>>>, <<<<"server", ".js">>>>, <<<<"server", ".sh">>>> }

\* Lines that input() can return.
InputLines ==
  { <<"q", "u", "i", "t">>,
    <<SP, "Q", "u", "i", "t", SP>>,
    <<"h", "i">>,
    <<SP, "h", "i">> }

\* Tool catalogs that list_tools can return (tool names).
Catalogs == { <<>>, <<"add">> }
ToolNames == { "add" }
ToolInputs == { "{a:2,b:3}" }
\* result.content of a successful call_tool.
ToolResults == { <<"5">>, <<"6">> }
\* Text of a Text block in the first response and in a continuation response.
FirstTexts == { <<"a">>, <<"c">> }
ContTexts == { <<"b">> }

TextBlock(t) == [type |-> "text", text |-> t, name |-> "", input |-> ""]
ToolUseBlock(n, i) == [type |-> "tool_use", text |-> <<>>, name |-> n, input |-> i]

BlocksOver(texts) ==
  { TextBlock(t) : t \in texts } \cup
  { ToolUseBlock(n, i) : n \in ToolNames, i \in ToolInputs }

SeqsUpTo(S, n) == UNION { [1..k -> S] : k \in 0..n }

\* response.content of the first call and of a continuation call.
FirstResponses == SeqsUpTo(BlocksOver(FirstTexts), MaxBlocks)
ContResponses == SeqsUpTo(BlocksOver(ContTexts), MaxBlocks)

\* ------------------------------------------------------ str helpers ----
\* str.endswith for a path held as (stem, extension).
\* Faulty variant of EndsWith: every path passes.
EndsWithAnything(path, suffix) == TRUE

\* str.endswith on a path given as (stem, extension).
EndsWith(path, suffix) == Len(path) > 0 /\ path[Len(path)] = suffix

RECURSIVE LStrip(_)
LStrip(s) == IF s # <<>> /\ Head(s) = SP THEN LStrip(Tail(s)) ELSE s

RECURSIVE RStrip(_)
RStrip(s) ==
  IF s # <<>> /\ s[Len(s)] = SP THEN RStrip(SubSeq(s, 1, Len(s) - 1)) ELSE s

\* str.strip
Strip(s) == RStrip(LStrip(s))

LowerChar(c) == IF c = "Q" THEN "q" ELSE c
\* Faulty variant of Lower: the case of the line is kept.
LowerKept(s) == s

\* str.lower
Lower(s) == [i \in 1..Len(s) |-> LowerChar(s[i])]

QUIT == <<"q", "u", "i", "t">>

\* "\n".join(parts)
RECURSIVE Join(_)
Join(parts) ==
  IF parts = <<>> THEN <<>>
  ELSE IF Len(parts) = 1 THEN parts[1]
  ELSE parts[1] \o <<NL>> \o Join(Tail(parts))

\* "".join(parts)
RECURSIVE Concat(_)
Concat(parts) ==
  IF parts = <<>> THEN <<>> ELSE Head(parts) \o Concat(Tail(parts))

\* f"[Calling tool {tool_name} with args {tool_args}]"
CallingToolText(tool_name, tool_args) ==
  <<"[Calling tool ", tool_name, " with args ", tool_args, "]">>

\* Faulty variant of HasText: every block is taken to carry a text.
HasTextAlways(content) == TRUE

\* hasattr(content, 'text'): only a Text block carries the attribute.
HasText(content) == content.type = "text"

\* ------------------------------------------------------------- state ----
VARIABLES
  pc,              \* position of main / chat_loop / process_query
  exc,             \* exception propagating or being handled, "None" if none
  argv,            \* sys.argv[1:]
  exit_stack,      \* self.exit_stack: contexts entered, oldest first
  session,         \* self.session
  released,        \* contexts closed so far, in closing order
  cleanupCalls,    \* number of times cleanup() ran
  connect_log,     \* steps connect_to_server has started, in order
  inputsRead,      \* input lines consumed by the chat loop
  query,           \* chat_loop: query
  messages,        \* process_query: messages
  available_tools, \* process_query: available_tools
  content_list,    \* process_query: the list the for loop iterates
  idx,             \* process_query: position of the for loop (1-based)
  response,        \* process_query: response.content, latest assignment
  final_text,      \* process_query: final_text
  result,          \* process_query: result.content of the latest call_tool
  pq_exit,         \* how process_query ended for this line
  answer,          \* chat_loop: response, what process_query returned for this line
  output,          \* what chat_loop printed for the line read last
  calls,           \* remote calls made for this line, in order
  outstanding,     \* requests sent and not answered yet
  det,             \* the remote parties answer equal requests equally
  memo,            \* requests answered so far when det
  prev,            \* outcome of the previous query when det
  listed,          \* the catalog the server returned last, before this query
  after_list_failure \* the line before this one was a query that list_tools failed

vars == << pc, exc, argv, exit_stack, session, released, cleanupCalls,
           connect_log,
           inputsRead, query, messages, available_tools, content_list, idx,
           response, final_text, result, pq_exit, answer, output, calls,
           outstanding, det, memo, prev, listed, after_list_failure >>

mainVars == << argv, exit_stack, session, released, cleanupCalls,
              connect_log >>
frameVars == << messages, available_tools, content_list, idx, response,
                final_text, result >>
chatVars == << inputsRead, query, pq_exit, answer, output >>
envVars == << det, memo, prev, listed, after_list_failure >>

NoOutput == [kind |-> "none", text |-> <<>>]
NoPrev == [valid |-> FALSE, query |-> <<>>, exit |-> "none", answer |-> <<>>,
           error |-> "None", history |-> <<>>]

\* A fresh process_query frame: no local is bound yet.
FreshFrame ==
  /\ messages = <<>>
  /\ available_tools = <<>>
  /\ content_list = <<>>
  /\ idx = 0
  /\ response = <<>>
  /\ final_text = <<>>
  /\ result = <<>>

\* Entering process_query, or unwinding it, leaves no local bound.
NewFrame ==
  /\ messages' = <<>>
  /\ available_tools' = <<>>
  /\ content_list' = <<>>
  /\ idx' = 0
  /\ response' = <<>>
  /\ final_text' = <<>>
  /\ result' = <<>>

Init ==
  /\ pc = "main"
  /\ exc = "None"
  /\ argv \in Argvs
  /\ exit_stack = <<>>
  /\ session = "None"
  /\ released = <<>>
  /\ cleanupCalls = 0
  /\ connect_log = <<>>
  /\ inputsRead = 0
  /\ query = <<>>
  /\ FreshFrame
  /\ pq_exit = "none"
  /\ answer = <<>>
  /\ output = NoOutput
  /\ calls = <<>>
  /\ outstanding = <<>>
  /\ det \in BOOLEAN
  /\ memo = {}
  /\ prev = NoPrev
  /\ listed = <<>>
  /\ after_list_failure = FALSE

\* -------------------------------------------------------- remote calls ----
Request(op, msgs, with_tools, tools, name, input) ==
  [op |-> op, messages |-> msgs, with_tools |-> with_tools, tools |-> tools,
   name |-> name, input |-> input]

Ok(content) == [outcome |-> "ok", content |-> content, error |-> "None"]
Raise(error) == [outcome |-> "raise", content |-> <<>>, error |-> error]

\* What the remote party may answer to req: anything in options, except that
\* a deterministic party repeats its earlier answer to an equal request.
Answers(req, options) ==
  IF det /\ \E m \in memo : m[1] = req
  THEN { m[2] : m \in { x \in memo : x[1] = req } }
  ELSE options

Remember(req, res) == IF det THEN memo \cup { <<req, res>> } ELSE memo

\* The call is logged with the position of the for loop it was made at.
Called(req, res) == Append(calls, [req |-> req, res |-> res, at |-> idx])

\* The awaited call returns or raises: it is the one request in flight.
Received(req) ==
  /\ outstanding = <<req>>
  /\ outstanding' = <<>>

\* ----------------------------------------------------------------- main ----
\* main, lines 189-196: the argument check, then MCPClient() and the try.
MainStart ==
  /\ pc = "main"
  /\ IF Len(argv) < 1
     THEN pc' = "usage_exit"
     ELSE pc' = "connect_validate"
  /\ UNCHANGED << exc, mainVars, chatVars, frameVars, calls, outstanding, envVars >>

\* Faulty variant of ConnectFails: the call of connect_to_server stands outside the try.
ConnectFailsOutsideTry(error) ==
  /\ exc' = error
  /\ pc' = "exited"

\* An exception leaves connect_to_server: main's finally runs cleanup.
ConnectFails(error) ==
  /\ exc' = error
  /\ pc' = "cleanup"

\* connect_to_server, lines 38-49.
ConnectValidate ==
  /\ pc = "connect_validate"
  /\ LET is_python == EndsWith(argv[1], ".py")
         is_js == EndsWith(argv[1], ".js")
     IN IF ~(is_python \/ is_js)
        THEN ConnectFails("ValueError")
        ELSE pc' = "connect_transport" /\ exc' = exc
  /\ UNCHANGED << mainVars, chatVars, frameVars, calls, outstanding, envVars >>

\* connect_to_server, lines 52-53: enter the stdio_client context.
ConnectTransport ==
  /\ pc = "connect_transport"
  /\ connect_log' = Append(connect_log, "stdio_client")
  /\ \/ /\ exit_stack' = Append(exit_stack, "stdio_client")
        /\ pc' = "connect_session"
        /\ exc' = exc
     \/ /\ ConnectFails("stdio_client failed")
        /\ exit_stack' = exit_stack
  /\ UNCHANGED << argv, session, released, cleanupCalls, chatVars, frameVars, calls, outstanding, envVars >>

\* connect_to_server, line 55: enter the ClientSession context.
ConnectSession ==
  /\ pc = "connect_session"
  /\ connect_log' = Append(connect_log, "ClientSession")
  /\ \/ /\ exit_stack' = Append(exit_stack, "ClientSession")
        /\ session' = "ClientSession"
        /\ pc' = "connect_initialize"
        /\ exc' = exc
     \/ /\ ConnectFails("ClientSession failed")
        /\ UNCHANGED << exit_stack, session >>
  /\ UNCHANGED << argv, released, cleanupCalls, chatVars, frameVars, calls, outstanding, envVars >>

\* connect_to_server, line 58.
ConnectInitialize ==
  /\ pc = "connect_initialize"
  /\ connect_log' = Append(connect_log, "initialize")
  /\ \/ pc' = "connect_list_tools" /\ exc' = exc
     \/ ConnectFails("initialize failed")
  /\ UNCHANGED << argv, exit_stack, session, released, cleanupCalls, chatVars,
                  frameVars, calls, outstanding, envVars >>

\* connect_to_server, lines 61-63, then main line 200 enters chat_loop.
ConnectListTools ==
  /\ pc = "connect_list_tools"
  /\ connect_log' = Append(connect_log, "list_tools")
  /\ LET req == Request("list_tools", <<>>, FALSE, <<>>, "", "")
     IN \E res \in Answers(req, { Ok(c) : c \in Catalogs }
                                 \cup { Raise("list_tools failed") }) :
          /\ memo' = Remember(req, res)
          /\ IF res.outcome = "ok"
             THEN /\ listed' = res.content
                  /\ pc' = "chat_input"
                  /\ exc' = exc
             ELSE /\ ConnectFails(res.error)
                  /\ listed' = listed
  /\ UNCHANGED << argv, exit_stack, session, released, cleanupCalls, chatVars,
                  frameVars, calls, outstanding, det, prev,
                  after_list_failure >>

\* Faulty variant of Reverse: the contexts are closed oldest first.
ReverseKeepsOrder(s) == s

\* AsyncExitStack.aclose(): close every entered context, newest first.
RECURSIVE Reverse(_)
Reverse(s) == IF s = <<>> THEN <<>> ELSE Append(Reverse(Tail(s)), Head(s))

\* cleanup, line 180, reached from main's finally (lines 201-203).
Cleanup ==
  /\ pc = "cleanup"
  /\ released' = released \o Reverse(exit_stack)
  /\ exit_stack' = <<>>
  /\ cleanupCalls' = cleanupCalls + 1
  /\ pc' = "exited"
  /\ UNCHANGED << exc, argv, session, connect_log, chatVars, frameVars, calls,
                  outstanding, envVars >>

\* cleanup, line 180, called again by a caller that already ran it.
CleanupAgain ==
  /\ pc = "exited"
  /\ cleanupCalls < MaxCleanups
  /\ released' = released \o Reverse(exit_stack)
  /\ exit_stack' = <<>>
  /\ cleanupCalls' = cleanupCalls + 1
  /\ UNCHANGED << pc, exc, argv, session, connect_log, chatVars, frameVars,
                  calls, outstanding, envVars >>

\* ------------------------------------------------------------ chat_loop ----
ChatPcs == { "chat_input", "chat_print", "chat_except" }
QueryPcs == { "pq_list_tools", "pq_first_llm", "pq_for", "pq_call_tool",
              "pq_cont_llm", "pq_return" }

\* What a deterministic remote party makes of two runs of one query.
Outcome(exit, ans, error) ==
  [valid |-> TRUE, query |-> query, exit |-> exit, answer |-> ans,
   error |-> error, history |-> messages]

\* The query of the line read last ended with list_tools raising.
ListToolsFailed ==
  /\ pq_exit = "raised"
  /\ Len(calls) = 1
  /\ calls[1].req.op = "list_tools"
  /\ calls[1].res.outcome = "raise"

\* chat_loop, lines 157-166: read a line, trim it, leave on 'quit', otherwise
\* call process_query (a new frame); input() itself may raise.
ChatReadInput ==
  /\ pc = "chat_input"
  /\ \/ \E line \in InputLines :
          /\ query' = Strip(line)
          /\ IF Lower(query') = QUIT
             THEN /\ pc' = "cleanup"
                  /\ UNCHANGED << inputsRead, frameVars, pq_exit, answer,
                                  output, calls, outstanding, after_list_failure >>
             ELSE /\ inputsRead < MaxInputs
                  /\ inputsRead' = inputsRead + 1
                  /\ pc' = "pq_list_tools"
                  /\ NewFrame
                  /\ pq_exit' = "none"
                  /\ answer' = <<>>
                  /\ output' = NoOutput
                  /\ calls' = <<>>
                  /\ outstanding' = <<>>
                  /\ after_list_failure' = ListToolsFailed
          /\ exc' = exc
     \/ /\ inputsRead < MaxInputs
        /\ inputsRead' = inputsRead + 1
        /\ exc' = "EOFError"
        /\ pc' = "chat_except"
        /\ NewFrame
        /\ pq_exit' = "none"
        /\ answer' = <<>>
        /\ output' = NoOutput
        /\ calls' = <<>>
        /\ outstanding' = <<>>
        /\ query' = query
        /\ after_list_failure' = FALSE
  /\ UNCHANGED << mainVars, det, listed, memo, prev >>

\* The catalog the server returned last: the one of the query that ends
\* here if its list_tools call returned.
LastListed ==
  IF calls # <<>> /\ calls[1].req.op = "list_tools" /\ calls[1].res.outcome = "ok"
  THEN calls[1].res.content
  ELSE listed

\* chat_loop, line 168: print the answer.
ChatPrint ==
  /\ pc = "chat_print"
  /\ output' = [kind |-> "answer", text |-> <<NL>> \o answer]
  /\ prev' = IF det THEN Outcome("returned", answer, "None") ELSE prev
  /\ listed' = LastListed
  /\ pc' = "chat_input"
  /\ UNCHANGED << exc, mainVars, inputsRead, query, pq_exit, answer,
                  frameVars, calls, outstanding, det, memo, after_list_failure >>

\* Faulty variant of ChatExcept: the handler reports the error and lets it end the loop.
ChatExceptEndsLoop ==
  /\ pc = "chat_except"
  /\ output' = [kind |-> "error", text |-> <<NL, "Error: ", exc>>]
  /\ pc' = "cleanup"
  /\ UNCHANGED << exc, mainVars, inputsRead, query, pq_exit, answer, frameVars,
                  calls, outstanding, envVars >>

\* chat_loop, lines 170-172: report the exception and go on with the loop.
ChatExcept ==
  /\ pc = "chat_except"
  /\ output' = [kind |-> "error", text |-> <<NL, "Error: ", exc>>]
  /\ prev' = IF det /\ pq_exit = "raised"
             THEN Outcome("raised", <<>>, exc) ELSE prev
  /\ listed' = LastListed
  /\ exc' = "None"
  /\ pc' = "chat_input"
  /\ UNCHANGED << mainVars, inputsRead, query, pq_exit, answer, frameVars,
                  calls, outstanding, det, memo, after_list_failure >>

\* A BaseException (KeyboardInterrupt, CancelledError) is not caught by the
\* 'except Exception' of line 170: it leaves chat_loop, whatever the loop was
\* doing, and main's finally runs cleanup. The frames of process_query and
\* chat_loop are unwound.
ChatInterrupt ==
  /\ pc \in ChatPcs \cup QueryPcs
  /\ exc' = "KeyboardInterrupt"
  /\ pc' = "cleanup"
  /\ NewFrame
  /\ calls' = <<>>
  /\ outstanding' = <<>>
  /\ pq_exit' = "none"
  /\ answer' = <<>>
  /\ output' = NoOutput
  /\ UNCHANGED << mainVars, inputsRead, query, envVars >>

\* -------------------------------------------------------- process_query ----
Message(role, content) == [role |-> role, content |-> content]

\* Faulty variant of AvailableTools: the catalog fetched earlier is kept.
AvailableToolsCached(tools) == [i \in 1..Len(listed) |-> listed[i]]

\* Tool Catalog Adapter, lines 89-93: one entry per tool, in order.
AvailableTools(tools) == [i \in 1..Len(tools) |-> tools[i]]

\* Faulty variant of InitialMessages: the history is kept on the client object.
InitialMessagesKept == Append(prev.history, Message("user", query))

\* process_query, lines 79-84: the history a query starts with.
InitialMessages == << Message("user", query) >>

\* process_query, line 110: a Text block goes to the answer as it is.
AfterText(texts, content) == Append(texts, content.text)

\* Faulty variant of AfterToolCall: the tool call is not logged.
AfterToolCallSilent(texts, tool_name, tool_args) == texts

\* process_query, line 119: the tool call is logged in the answer.
AfterToolCall(texts, tool_name, tool_args) ==
  Append(texts, CallingToolText(tool_name, tool_args))

\* Faulty variant of AfterToolResult: the newest result is put right after
\* the query, before the earlier results.
AfterToolResultNewestFirst(msgs, content, result_content) ==
  << Head(msgs), Message("user", result_content) >> \o Tail(msgs)

\* process_query, lines 122-131: an assistant message if the block has a
\* non-empty text, then the tool result as a user message.
AfterToolResult(msgs, content, result_content) ==
  Append(IF HasText(content) /\ content.text # <<>>
         THEN Append(msgs, Message("assistant", content.text))
         ELSE msgs,
         Message("user", result_content))

\* Faulty variant of Iterated: the for loop goes on in the new response.
IteratedRebound(iterated, new_content) == new_content

\* process_query, lines 107 and 134: the for loop holds the list it was
\* started on; binding 'response' to the continuation response leaves that
\* list in place.
Iterated(iterated, new_content) == iterated

\* Faulty variant of ReturnValue: joined with the empty string.
ReturnValueNoSeparator(texts) == Concat(texts)

\* process_query, line 144.
ReturnValue(texts) == Join(texts)

\* Faulty variant of PQRaise: the failed call is made again.
PQRaiseRetries(error) ==
  /\ exc' = exc
  /\ pq_exit' = pq_exit
  /\ pc' = pc

\* Faulty variant of PQRaise: the failure is swallowed and the answer so far returned.
PQRaiseReturns(error) ==
  /\ exc' = exc
  /\ pq_exit' = pq_exit
  /\ pc' = "pq_return"

\* process_query, line 87: session.list_tools().
ListToolsRequest == Request("list_tools", <<>>, FALSE, <<>>, "", "")

\* process_query, lines 96-101: the history and the catalog.
FirstRequest == Request("llm", messages, TRUE, available_tools, "", "")

\* process_query, lines 113-117: session.call_tool(tool_name, tool_args).
ToolRequest(content) ==
  Request("call_tool", <<>>, FALSE, <<>>, content.name, content.input)

\* Faulty variant of ContinuationRequest: the catalog is sent again.
ContinuationRequestWithTools ==
  Request("llm", messages, TRUE, available_tools, "", "")

\* process_query, lines 134-138: the history, no tools argument.
ContinuationRequest == Request("llm", messages, FALSE, <<>>, "", "")

CallPcs == { "pq_list_tools", "pq_first_llm", "pq_call_tool", "pq_cont_llm" }

\* The request of the await the coroutine stands at.
PendingRequest ==
  CASE pc = "pq_list_tools" -> ListToolsRequest
    [] pc = "pq_first_llm" -> FirstRequest
    [] pc = "pq_call_tool" -> ToolRequest(content_list[idx])
    [] pc = "pq_cont_llm" -> ContinuationRequest

RECURSIVE ToolRequestsFrom(_)
ToolRequestsFrom(i) ==
  IF i > Len(content_list) THEN <<>>
  ELSE IF content_list[i].type = "tool_use"
  THEN << ToolRequest(content_list[i]) >> \o ToolRequestsFrom(i + 1)
  ELSE ToolRequestsFrom(i + 1)

\* Faulty variant of Dispatched: the tool calls of a response are gathered.
DispatchedTogether ==
  IF pc = "pq_call_tool" THEN ToolRequestsFrom(idx) ELSE << PendingRequest >>

\* What one await sends: its one request.
Dispatched == << PendingRequest >>

\* process_query, lines 87, 96, 117, 134: an awaited call is sent; the
\* coroutine is suspended until its answer arrives.
PQSend ==
  /\ pc \in CallPcs
  /\ outstanding = <<>>
  /\ outstanding' = Dispatched
  /\ UNCHANGED << pc, exc, mainVars, chatVars, frameVars, calls, envVars >>

\* An exception leaves process_query: chat_loop's except clause is next.
PQRaise(error) ==
  /\ exc' = error
  /\ pq_exit' = "raised"
  /\ pc' = "chat_except"

\* process_query, lines 79-93: the history starts with the query; fetch the
\* tool catalog.
PQListTools ==
  /\ pc = "pq_list_tools"
  /\ messages' = InitialMessages
  /\ LET req == ListToolsRequest
     IN \E res \in Answers(req, { Ok(c) : c \in Catalogs }
                                 \cup { Raise("list_tools failed") }) :
          /\ Received(req)
          /\ calls' = Called(req, res)
          /\ memo' = Remember(req, res)
          /\ IF res.outcome = "ok"
             THEN /\ available_tools' = AvailableTools(res.content)
                  /\ pc' = "pq_first_llm"
                  /\ UNCHANGED << exc, pq_exit >>
             ELSE /\ PQRaise(res.error)
                  /\ available_tools' = available_tools
  /\ UNCHANGED << mainVars, inputsRead, query, answer, output, content_list,
                  idx, response, final_text, result, det, listed, prev,
                  after_list_failure >>

\* process_query, lines 96-107: the first model call, with the catalog.
PQFirstLLM ==
  /\ pc = "pq_first_llm"
  /\ LET req == FirstRequest
     IN \E res \in Answers(req, { Ok(c) : c \in FirstResponses }
                                 \cup { Raise("messages.create failed") }) :
          /\ Received(req)
          /\ calls' = Called(req, res)
          /\ memo' = Remember(req, res)
          /\ IF res.outcome = "ok"
             THEN /\ response' = res.content
                  /\ content_list' = res.content
                  /\ idx' = 1
                  /\ final_text' = <<>>
                  /\ pc' = "pq_for"
                  /\ UNCHANGED << exc, pq_exit >>
             ELSE /\ PQRaise(res.error)
                  /\ UNCHANGED << response, content_list, idx, final_text >>
  /\ UNCHANGED << mainVars, inputsRead, query, answer, output, messages,
                  available_tools, result, det, listed, prev,
                  after_list_failure >>

\* process_query, lines 107-114: one step of 'for content in response.content'.
\* The iterator was taken from the first response; rebinding 'response' in the
\* loop body does not change what is iterated.
PQFor ==
  /\ pc = "pq_for"
  /\ IF idx > Len(content_list)
     THEN /\ pc' = "pq_return"
          /\ UNCHANGED << idx, final_text >>
     ELSE LET content == content_list[idx]
          IN IF content.type = "text"
             THEN /\ final_text' = AfterText(final_text, content)
                  /\ idx' = idx + 1
                  /\ pc' = pc
             ELSE IF content.type = "tool_use"
             THEN /\ pc' = "pq_call_tool"
                  /\ UNCHANGED << idx, final_text >>
             ELSE /\ idx' = idx + 1
                  /\ UNCHANGED << pc, final_text >>
  /\ UNCHANGED << exc, mainVars, chatVars, messages, available_tools,
                  content_list, response, result, calls, outstanding, envVars >>

\* process_query, lines 113-131: run the tool on the server, log the call in
\* the answer, append the result to the history as a user message.
PQCallTool ==
  /\ pc = "pq_call_tool"
  /\ LET content == content_list[idx]
         tool_name == content.name
         tool_args == content.input
         req == ToolRequest(content)
     IN \E res \in Answers(req, { Ok(t) : t \in ToolResults }
                                 \cup { Raise("call_tool failed") }) :
          /\ Received(req)
          /\ calls' = Called(req, res)
          /\ memo' = Remember(req, res)
          /\ IF res.outcome = "ok"
             THEN /\ result' = res.content
                  /\ final_text' =
                       AfterToolCall(final_text, tool_name, tool_args)
                  /\ messages' =
                       AfterToolResult(messages, content, res.content)
                  /\ pc' = "pq_cont_llm"
                  /\ UNCHANGED << exc, pq_exit >>
             ELSE /\ PQRaise(res.error)
                  /\ UNCHANGED << result, final_text, messages >>
  /\ UNCHANGED << mainVars, inputsRead, query, answer, output,
                  available_tools, content_list, idx, response, det, listed, prev,
                  after_list_failure >>

\* process_query, lines 134-141: the continuation model call, without the
\* catalog; only content[0].text of its response is read.
PQContLLM ==
  /\ pc = "pq_cont_llm"
  /\ LET req == ContinuationRequest
     IN \E res \in Answers(req, { Ok(c) : c \in ContResponses }
                                 \cup { Raise("messages.create failed") }) :
          /\ Received(req)
          /\ calls' = Called(req, res)
          /\ memo' = Remember(req, res)
          /\ content_list' = Iterated(content_list, res.content)
          /\ IF res.outcome = "ok"
             THEN /\ response' = res.content
                  /\ IF Len(res.content) = 0
                     THEN /\ PQRaise("IndexError")
                          /\ UNCHANGED << final_text, idx >>
                     ELSE IF ~HasText(res.content[1])
                     THEN /\ PQRaise("AttributeError")
                          /\ UNCHANGED << final_text, idx >>
                     ELSE /\ final_text' =
                               Append(final_text, res.content[1].text)
                          /\ idx' = idx + 1
                          /\ pc' = "pq_for"
                          /\ UNCHANGED << exc, pq_exit >>
             ELSE /\ PQRaise(res.error)
                  /\ UNCHANGED << response, final_text, idx >>
  /\ UNCHANGED << mainVars, inputsRead, query, answer, output, messages,
                  available_tools, result, det, listed, prev,
                  after_list_failure >>

\* process_query, line 144, and the assignment of line 166.
PQReturn ==
  /\ pc = "pq_return"
  /\ answer' = ReturnValue(final_text)
  /\ pq_exit' = "returned"
  /\ pc' = "chat_print"
  /\ UNCHANGED << exc, mainVars, inputsRead, query, output, frameVars, calls, outstanding,
                  envVars >>

\* ---------------------------------------------------------------- system ----
Next ==
  \/ MainStart
  \/ ConnectValidate
  \/ ConnectTransport
  \/ ConnectSession
  \/ ConnectInitialize
  \/ ConnectListTools
  \/ ChatReadInput
  \/ ChatPrint
  \/ ChatExcept
  \/ ChatInterrupt
  \/ PQSend
  \/ PQListTools
  \/ PQFirstLLM
  \/ PQFor
  \/ PQCallTool
  \/ PQContLLM
  \/ PQReturn
  \/ Cleanup

Spec == Init /\ [][Next]_vars

\* main followed by further cleanup() calls on the same client.
NextCleanupTwice == Next \/ CleanupAgain
SpecCleanupTwice == Init /\ [][NextCleanupTwice]_vars
\* ------------------------------------------------- reading the call log ----
IsLLM(e) == e.req.op = "llm"
IsOkLLM(e) == e.req.op = "llm" /\ e.res.outcome = "ok"
IsTool(e) == e.req.op = "call_tool"
IsToolUse(b) == b.type = "tool_use"
IsText(b) == b.type = "text"

LLMEvents == SelectSeq(calls, IsLLM)
ToolEvents == SelectSeq(calls, IsTool)
\* The content lists of the model responses of this query, in order.
Responses ==
  LET ok == SelectSeq(calls, IsOkLLM)
  IN [i \in 1..Len(ok) |-> ok[i].res.content]

ToolUsesOf(resp) == SelectSeq(resp, IsToolUse)
TextsOf(resp) ==
  LET t == SelectSeq(resp, IsText) IN [i \in 1..Len(t) |-> t[i].text]
NoToolUse(resp) == ToolUsesOf(resp) = <<>>

LastCallRaised ==
  Len(calls) > 0 /\ calls[Len(calls)].res.outcome = "raise"
NoCallRaised == \A i \in 1..Len(calls) : calls[i].res.outcome = "ok"
ErrorText(error) == <<NL, "Error: ", error>>

\* ----------------------------------------------------------------- C1 ----
\* C1: every ToolUse block of every model response of a query (first and
\* continuation alike) gets exactly one call_tool and one history append of
\* its result, in emission order, none dropped: when process_query returns,
\* the tools called are the ToolUse blocks received, in order, and the
\* history holds the query and one result per ToolUse block.
C1_EveryToolUseDispatched ==
  pq_exit = "returned" =>
    LET uses == Concat([i \in 1..Len(Responses) |-> ToolUsesOf(Responses[i])])
    IN /\ [i \in 1..Len(ToolEvents) |->
             <<ToolEvents[i].req.name, ToolEvents[i].req.input>>]
          = [i \in 1..Len(uses) |-> <<uses[i].name, uses[i].input>>]
       /\ Len(messages) = 1 + Len(uses)

\* ----------------------------------------------------------------- C2 ----
FirstHasNoToolUse == Len(Responses) > 0 /\ NoToolUse(Responses[1])

\* C2 as stated: when the first response holds no ToolUse block, there is one
\* model call, no call_tool, and the answer returned is the Text contents of
\* that response put end to end.
C2_AnswerIsConcatenation ==
  (pq_exit = "returned" /\ FirstHasNoToolUse) =>
    /\ Len(LLMEvents) = 1
    /\ Len(ToolEvents) = 0
    /\ answer = Concat(TextsOf(Responses[1]))

\* C2 amended: when the first response holds no ToolUse block, there is one
\* model call, no call_tool, and the answer returned is the Text contents of
\* that response in order with one newline between consecutive contents.
C2_AnswerIsNewlineJoin ==
  (pq_exit = "returned" /\ FirstHasNoToolUse) =>
    /\ Len(LLMEvents) = 1
    /\ Len(ToolEvents) = 0
    /\ answer = Join(TextsOf(Responses[1]))

\* A query whose only response was two Text blocks has been answered.
C2_Witness ==
  /\ pq_exit = "returned"
  /\ FirstHasNoToolUse
  /\ Len(TextsOf(Responses[1])) = 2
  /\ TextsOf(Responses[1])[1] # TextsOf(Responses[1])[2]
  /\ pc = "chat_print"

\* ----------------------------------------------------------------- C3 ----
NotNewline(c) == c # NL

\* C3 as stated: the answer of a query that completes holds the Text contents
\* of all its responses in emission order and nothing else (whatever separates
\* them: newlines are left out of the comparison); after a single ToolUse
\* answered by a single Text there was one tool call and the answer is that
\* Text.
C3_AnswerIsAllText ==
  pq_exit = "returned" =>
    /\ SelectSeq(answer, NotNewline)
         = Concat(Concat([i \in 1..Len(Responses) |-> TextsOf(Responses[i])]))
    /\ (Len(Responses) = 2 /\ Len(Responses[1]) = 1 /\ IsToolUse(Responses[1][1])
        /\ Len(Responses[2]) = 1 /\ IsText(Responses[2][1]))
       => (Len(ToolEvents) = 1 /\ answer = Responses[2][1].text)

\* The pieces of the answer: for each block of the first response in order, a
\* Text block gives its text, a ToolUse block gives the line
\* "[Calling tool <name> with args <input>]" and then the text of the first
\* block of the continuation response made for it.
RECURSIVE Pieces(_, _)
Pieces(blocks, conts) ==
  IF blocks = <<>> THEN <<>>
  ELSE IF IsText(Head(blocks))
  THEN << Head(blocks).text >> \o Pieces(Tail(blocks), conts)
  ELSE << <<"[Calling tool ", Head(blocks).name, " with args ",
            Head(blocks).input, "]">>,
          Head(conts)[1].text >> \o Pieces(Tail(blocks), Tail(conts))

\* C3 amended: the answer of a query that completes is, joined by newlines,
\* for each block of the first response in order: the text of a Text block;
\* for a ToolUse block the line "[Calling tool <name> with args <input>]"
\* followed by the text of the first block of the continuation response made
\* after that tool call. After a single ToolUse answered by a single Text
\* there was one tool call and the answer is the tool line, a newline, and
\* that Text.
C3_AnswerIsJoinedPieces ==
  pq_exit = "returned" =>
    /\ answer = Join(Pieces(Responses[1], Tail(Responses)))
    /\ (Len(Responses) = 2 /\ Len(Responses[1]) = 1 /\ IsToolUse(Responses[1][1])
        /\ Len(Responses[2]) = 1 /\ IsText(Responses[2][1]))
       => /\ Len(ToolEvents) = 1
          /\ answer = <<"[Calling tool ", Responses[1][1].name, " with args ",
                        Responses[1][1].input, "]", NL>> \o Responses[2][1].text

\* A query answered after a Text block, a tool call and its continuation.
C3_Witness ==
  /\ pq_exit = "returned"
  /\ Len(Responses) = 2
  /\ Len(Responses[1]) = 2
  /\ IsText(Responses[1][1])
  /\ IsToolUse(Responses[1][2])
  /\ Len(ToolEvents) = 1

\* ----------------------------------------------------------------- C4 ----
\* C4: whenever a model response of a query, first or continuation, holds no
\* ToolUse block, the loop ends there: no remote call follows that response.
C4_NoCallAfterTextOnlyResponse ==
  \A i \in 1..Len(calls) :
    (IsOkLLM(calls[i]) /\ NoToolUse(calls[i].res.content)) => i = Len(calls)

\* ----------------------------------------------------------------- C5 ----
\* C5: when every model response of a query holds a ToolUse block, the query
\* ends, after a bounded number of rounds, in a TurnLimitExceeded failure.
C5_EndsInTurnLimitExceeded ==
  ( /\ pq_exit \in {"returned", "raised"}
    /\ pc \in {"chat_print", "chat_except"}
    /\ NoCallRaised
    /\ Len(Responses) > 0
    /\ \A i \in 1..Len(Responses) : ~NoToolUse(Responses[i]) )
  => (pq_exit = "raised" /\ exc = "TurnLimitExceeded")
\* ----------------------------------------------------------------- C6 ----
\* C6: a call_tool that fails is the last remote call of its query (it is
\* not retried, no model call and no other call_tool follows), process_query
\* is left by the exception, and once chat_loop has handled it the user has
\* been shown "Error: <message>" for the query.
C6_ToolFailureEndsQuery ==
  \A i \in 1..Len(calls) :
    (IsTool(calls[i]) /\ calls[i].res.outcome = "raise") =>
      /\ i = Len(calls)
      /\ pq_exit = "raised"
      /\ pc \in {"chat_except", "chat_input", "cleanup", "exited"}
      /\ pc = "chat_except" => exc = calls[i].res.error
      /\ pc # "chat_except" =>
           output = [kind |-> "error", text |-> ErrorText(calls[i].res.error)]

\* The second tool call of a query failed and the error has been shown.
C6_Witness ==
  /\ Len(ToolEvents) = 2
  /\ ToolEvents[2].res.outcome = "raise"
  /\ pc = "chat_input"
  /\ output.kind = "error"

\* ----------------------------------------------------------------- C7 ----
SessionIntact ==
  /\ session = "ClientSession"
  /\ exit_stack = <<"stdio_client", "ClientSession">>
  /\ released = <<>>
  /\ cleanupCalls = 0

\* C7: when list_tools fails at the start of a query, no model call is made
\* for it, the user is shown "Error: <message>", the failure does not end the
\* chat loop and nothing of the session is released; the query of the next
\* line runs on the same, intact session.
C7_ListToolsFailureKeepsSession ==
  /\ (Len(calls) > 0 /\ calls[1].req.op = "list_tools"
      /\ calls[1].res.outcome = "raise") =>
       /\ Len(calls) = 1
       /\ pq_exit = "raised"
       /\ pc \in {"chat_except", "chat_input", "cleanup", "exited"}
       /\ pc = "chat_except" => exc = calls[1].res.error
       /\ pc # "chat_except" =>
            /\ exc = "None"
            /\ output = [kind |-> "error", text |-> ErrorText(calls[1].res.error)]
       /\ pc \in {"chat_except", "chat_input"} => SessionIntact
       /\ (pc = "chat_input" /\ inputsRead < MaxInputs) => ENABLED ChatReadInput
  /\ (after_list_failure /\ pc \in QueryPcs \cup ChatPcs) => SessionIntact

\* The query after one that list_tools failed has called a tool and returned.
C7_Witness ==
  /\ after_list_failure
  /\ pq_exit = "returned"
  /\ Len(ToolEvents) = 1
  /\ pc = "chat_print"

\* ----------------------------------------------------------------- C8 ----
\* C8 as stated: process_query never raises; a failure of list_tools, of a
\* model call or of call_tool ends it with a message returned as the answer.
C8_ProcessQueryNeverRaises ==
  (LastCallRaised /\ pc \in {"chat_except", "chat_print"}) =>
    (pq_exit = "returned" /\ pc = "chat_print")

\* C8 amended: process_query converts nothing: a failure of list_tools, of a
\* model call or of call_tool leaves process_query as an exception and no
\* answer is returned; chat_loop catches the exception and prints
\* "Error: <message>" as the outcome of the query, and the failure does not
\* leave chat_loop.
C8_FailuresSurfaceInChatLoop ==
  LastCallRaised =>
    LET error == calls[Len(calls)].res.error
    IN /\ pq_exit = "raised"
       /\ answer = <<>>
       /\ \/ pc = "chat_except" /\ exc = error
          \/ /\ pc \in {"chat_input", "cleanup", "exited"}
             /\ exc = "None"
             /\ output = [kind |-> "error", text |-> ErrorText(error)]

\* A continuation model call failed and the error has been shown.
C8_Witness ==
  /\ LastCallRaised
  /\ IsLLM(calls[Len(calls)])
  /\ Len(LLMEvents) = 2
  /\ pc = "chat_input"
  /\ output.kind = "error"

\* ----------------------------------------------------------------- C9 ----
Roles(msgs) == [i \in 1..Len(msgs) |-> msgs[i].role]

\* C9: every query starts from the history [user: query], whatever the query
\* before it did, and a query run again against remote parties that answer
\* equal requests equally ends the same way, with the same answer or error
\* and a history of the same length and role sequence.
C9_QueriesShareNoState ==
  /\ (pc \in QueryPcs \cup {"chat_print", "chat_except"} /\ Len(LLMEvents) > 0)
       => LLMEvents[1].req.messages = << [role |-> "user", content |-> query] >>
  /\ ( /\ det
       /\ prev.valid
       /\ prev.query = query
       /\ pq_exit # "none"
       /\ pc \in {"chat_print", "chat_except"} ) =>
       /\ prev.exit = pq_exit
       /\ prev.answer = answer
       /\ prev.error = (IF pq_exit = "raised" THEN exc ELSE "None")
       /\ Len(prev.history) = Len(messages)
       /\ Roles(prev.history) = Roles(messages)

\* The same query was answered a second time, after a tool call.
C9_Witness ==
  /\ det
  /\ prev.valid
  /\ prev.query = query
  /\ inputsRead = 2
  /\ pq_exit = "returned"
  /\ pc = "chat_print"
  /\ Len(messages) = 2

\* ---------------------------------------------------------------- C10 ----
\* C10: on every path of main that constructs the client (normal quit, a
\* failure of any step of connect_to_server, an exception leaving chat_loop)
\* cleanup runs exactly once, as the last step, after the last query.
C10_CleanupExactlyOnce ==
  /\ cleanupCalls <= 1
  /\ pc = "exited" => cleanupCalls = 1
  /\ pc # "exited" => cleanupCalls = 0
  /\ pc \in QueryPcs \cup ChatPcs => cleanupCalls = 0

\* main ended after an exception left chat_loop during the second line.
C10_Witness ==
  /\ pc = "exited"
  /\ cleanupCalls = 1
  /\ exc = "KeyboardInterrupt"
  /\ inputsRead = 2
\* ---------------------------------------------------------------- C11 ----
\* The contexts cleanup has to close, newest first, by the step of
\* connect_to_server that failed (none failed: both were entered).
ExpectedReleased ==
  IF exc \in {"ValueError", "stdio_client failed"} THEN <<>>
  ELSE IF exc = "ClientSession failed" THEN <<"stdio_client">>
  ELSE <<"ClientSession", "stdio_client">>

\* C11: whichever step of connect_to_server failed, cleanup closes exactly
\* the contexts entered so far, each once and newest first, and leaves the
\* exit stack empty; a further cleanup call closes nothing more.
C11_CleanupIdempotent ==
  /\ cleanupCalls = 0 => released = <<>>
  /\ cleanupCalls >= 1 => (released = ExpectedReleased /\ exit_stack = <<>>)

\* cleanup ran twice on a client whose ClientSession could not be entered.
C11_Witness ==
  /\ cleanupCalls = 2
  /\ exc = "ClientSession failed"
  /\ released = <<"stdio_client">>
\* ---------------------------------------------------------------- C12 ----
\* The positions of the ToolUse blocks of a response, in emission order.
ToolUsePositions(resp) ==
  LET AtToolUse(i) == IsToolUse(resp[i])
  IN SelectSeq([i \in 1..Len(resp) |-> i], AtToolUse)

\* C12: at every moment at most one remote call is in flight, and it is the
\* call of the await the query stands at; the tool calls made so far are the
\* first ToolUse blocks of the response, one per block, in emission order;
\* while the chat loop reads or reports (a new line can be accepted only
\* there) no call is in flight.
C12_OneCallAtATime ==
  /\ Len(outstanding) <= 1
  /\ outstanding # <<>> => (pc \in CallPcs /\ outstanding[1] = PendingRequest)
  /\ pc \in ChatPcs \cup {"cleanup", "exited"} => outstanding = <<>>
  /\ Len(ToolEvents) > 0 =>
       LET at == ToolUsePositions(content_list)
       IN /\ Len(ToolEvents) <= Len(at)
          /\ \A i \in 1..Len(ToolEvents) :
               /\ ToolEvents[i].at = at[i]
               /\ ToolEvents[i].req = ToolRequest(content_list[at[i]])

\* The call for the second ToolUse block of a response is in flight after
\* the call for the first one was answered.
C12_Witness ==
  /\ pc = "pq_call_tool"
  /\ Len(outstanding) = 1
  /\ idx = 2
  /\ Len(ToolEvents) = 1
  /\ IsToolUse(content_list[1])
\* ---------------------------------------------------------------- C13 ----
\* C13: of the model calls of a query, the first carries the tool catalog
\* and every later one (a continuation call, made right after a tool call
\* that succeeded) carries the history and no tool catalog.
C13_CatalogOnFirstCallOnly ==
  \A i \in 1..Len(calls) :
    IsLLM(calls[i]) =>
      IF \A j \in 1..(i - 1) : ~IsLLM(calls[j])
      THEN calls[i].req.with_tools
      ELSE /\ ~calls[i].req.with_tools
           /\ calls[i].req.tools = <<>>
           /\ calls[i].req.messages # <<>>
           /\ IsTool(calls[i - 1])
           /\ calls[i - 1].res.outcome = "ok"

\* A continuation call was made in a query whose catalog is not empty.
C13_Witness ==
  /\ Len(LLMEvents) = 2
  /\ LLMEvents[1].req.tools # <<>>
  /\ LLMEvents[2].res.outcome = "ok"
  /\ pc = "pq_for"
\* ---------------------------------------------------------------- C14 ----
IsListTools(e) == e.req.op = "list_tools"

\* C14: the first remote call of every query is its one list_tools call, no
\* model call is made before it has returned, and the catalog on the first
\* model call is, entry by entry, the catalog that list_tools call returned,
\* whatever catalog the server returned at connect or to the previous query.
C14_CatalogFetchedPerQuery ==
  /\ pc \in QueryPcs \ {"pq_list_tools"} => Len(calls) > 0
  /\ Len(calls) > 0 =>
       /\ IsListTools(calls[1])
       /\ Len(SelectSeq(calls, IsListTools)) = 1
       /\ Len(calls) > 1 =>
            /\ calls[1].res.outcome = "ok"
            /\ IsLLM(calls[2])
            /\ calls[2].req.with_tools
            /\ calls[2].req.tools = calls[1].res.content

\* In the second query the server returned another catalog than to the first
\* query, and the first model call of the second query was made.
C14_Witness ==
  /\ inputsRead = 2
  /\ Len(LLMEvents) = 1
  /\ calls[1].res.content # listed
  /\ calls[1].res.content # <<>>
\* ---------------------------------------------------------------- C15 ----
HasTextAndToolUse(resp) ==
  /\ \E i \in 1..Len(resp) : IsText(resp[i])
  /\ \E i \in 1..Len(resp) : IsToolUse(resp[i])

\* C15: when a query has returned its answer, every model response of the
\* query that held both a Text block and a ToolUse block, in either order,
\* was followed by a tool call and, after that, by another model call.
C15_TextDoesNotEndQuery ==
  pq_exit = "returned" =>
    \A i \in 1..Len(calls) :
      (IsOkLLM(calls[i]) /\ HasTextAndToolUse(calls[i].res.content)) =>
        \E j \in (i + 1)..Len(calls) :
          /\ IsTool(calls[j])
          /\ \E k \in (j + 1)..Len(calls) : IsLLM(calls[k])
\* ---------------------------------------------------------------- C16 ----
\* The history after k tool results: the query, then the results of the
\* first k tool calls in the order the calls were made, all as user messages.
HistoryAfter(k) ==
  << Message("user", query) >>
    \o [j \in 1..k |-> Message("user", ToolEvents[j].res.content)]

OkToolCalls ==
  Cardinality({ j \in 1..Len(ToolEvents) : ToolEvents[j].res.outcome = "ok" })

\* C16: within a query the i-th model call receives the query followed by
\* the results of the first i-1 tool calls in dispatch order, each as a
\* user-role message; a continuation model call directly follows a tool call
\* that returned; and the history held by the query is at every moment the
\* query followed by the results received so far.
C16_HistoryAppendOnly ==
  (pc \in QueryPcs \cup {"chat_print", "chat_except"} /\ Len(calls) > 0) =>
    /\ \A i \in 1..Len(LLMEvents) :
         /\ Len(ToolEvents) >= i - 1
         /\ \A j \in 1..(i - 1) : ToolEvents[j].res.outcome = "ok"
         /\ LLMEvents[i].req.messages = HistoryAfter(i - 1)
    /\ \A i \in 2..Len(calls) :
         (IsLLM(calls[i]) /\ ~IsListTools(calls[i - 1])) =>
           (IsTool(calls[i - 1]) /\ calls[i - 1].res.outcome = "ok")
    /\ messages = HistoryAfter(OkToolCalls)

\* The second continuation call of a query was made after two tool calls
\* that returned different results.
C16_Witness ==
  /\ Len(LLMEvents) = 3
  /\ Len(ToolEvents) = 2
  /\ ToolEvents[1].res.content # ToolEvents[2].res.content
  /\ pc = "pq_for"
\* ---------------------------------------------------------------- C17 ----
\* The number of ToolUse blocks of the first response of the query.
FirstToolUses ==
  IF Len(Responses) > 0 THEN Len(ToolUsesOf(Responses[1])) ELSE 0

\* During a query the calls made never exceed one model call plus one tool
\* call and one model call per ToolUse block of the first response; a query
\* that returns made exactly that many.
CallCounts ==
  /\ Len(ToolEvents) <= FirstToolUses
  /\ Len(LLMEvents) <= 1 + FirstToolUses
  /\ pq_exit = "returned" =>
       /\ NoCallRaised
       /\ Len(ToolEvents) = FirstToolUses
       /\ Len(LLMEvents) = 1 + FirstToolUses

\* A bound on the steps a query has left: six per block of the first
\* response not yet passed, less what was done for the block at hand.
Rank ==
  LET sent == IF outstanding = <<>> THEN 0 ELSE 1
      left == Len(content_list) - idx + 1
  IN CASE pc = "pq_list_tools" -> 6 * MaxBlocks + 6 - sent
       [] pc = "pq_first_llm" -> 6 * MaxBlocks + 4 - sent
       [] pc = "pq_for" -> 6 * left + 2
       [] pc = "pq_call_tool" -> 6 * left + 1 - sent
       [] pc = "pq_cont_llm" -> 6 * left - 1 - sent
       [] pc = "pq_return" -> 1
       [] OTHER -> 0

\* C17: every step of a query, each remote call being answered, lowers a
\* natural-number bound on the steps left, so process_query terminates
\* whatever the model answers; and a query that returns without error made
\* exactly 1 + n model calls and n tool calls, n being the number of ToolUse
\* blocks of its first response: a ToolUse block of a continuation response
\* adds no call.
C17_BoundedByFirstResponse ==
  [][ /\ CallCounts'
      /\ (pc \in QueryPcs /\ pc' \in QueryPcs) => (Rank' < Rank /\ Rank' >= 0)
    ]_vars

\* A query returned although its continuation response held a ToolUse block.
C17_Witness ==
  /\ pq_exit = "returned"
  /\ Len(Responses) = 2
  /\ FirstToolUses = 1
  /\ ~NoToolUse(Responses[2])
  /\ Len(ToolEvents) = 1
\* ---------------------------------------------------------------- C18 ----
\* The last call of the query is a continuation model call that returned a
\* response that is empty or does not start with a Text block.
UnreadableContinuation ==
  /\ Len(calls) > 3
  /\ IsOkLLM(calls[Len(calls)])
  /\ ~calls[Len(calls)].req.with_tools
  /\ \/ calls[Len(calls)].res.content = <<>>
     \/ ~IsText(calls[Len(calls)].res.content[1])

\* The exception such a response raises at line 141.
UnreadableError ==
  IF calls[Len(calls)].res.content = <<>> THEN "IndexError"
  ELSE "AttributeError"

\* C18: after a continuation response that is empty or does not start with
\* a Text block, process_query has raised (IndexError, AttributeError) and
\* returned no answer, the tool call before it has returned from the server,
\* no text of the query is printed, and the chat loop holds that exception
\* or has printed "Error: " and its message.
C18_UnreadableContinuationFails ==
  UnreadableContinuation =>
    /\ pq_exit = "raised"
    /\ answer = <<>>
    /\ pc # "chat_print"
    /\ IsTool(calls[Len(calls) - 1])
    /\ calls[Len(calls) - 1].res.outcome = "ok"
    /\ IF pc = "chat_except"
       THEN exc = UnreadableError /\ output = NoOutput
       ELSE output = [kind |-> "error", text |-> ErrorText(UnreadableError)]

\* The error of a continuation response starting with a ToolUse block was
\* printed; the first response of the query had started with a Text block.
C18_Witness ==
  /\ UnreadableContinuation
  /\ calls[Len(calls)].res.content # <<>>
  /\ IsText(Responses[1][1])
  /\ pc = "chat_input"
  /\ output.kind = "error"
\* ---------------------------------------------------------------- C19 ----
\* The word quit in any mix of upper and lower case, nothing around it.
IsQuitWord(q) ==
  /\ Len(q) = 4
  /\ q[1] \in {"q", "Q"}
  /\ q[2] \in {"u", "U"}
  /\ q[3] \in {"i", "I"}
  /\ q[4] \in {"t", "T"}

\* Reading the word quit ends the loop and starts no query; a line that
\* starts a query is trimmed and is not the word quit.
QuitEndsLoop ==
  /\ (pc = "chat_input" /\ pc' = "cleanup" /\ exc' = "None") =>
       /\ IsQuitWord(query')
       /\ calls' = calls
       /\ inputsRead' = inputsRead
  /\ (pc = "chat_input" /\ pc' = "pq_list_tools") =>
       /\ ~IsQuitWord(query')
       /\ query' # <<>> => (query'[1] # SP /\ query'[Len(query')] # SP)

\* An exception that reaches the except clause is printed as "Error: " and
\* its message, and the loop reads the next line.
ErrorsAreReported ==
  /\ (pc = "chat_input" /\ exc' = "EOFError") => pc' = "chat_except"
  /\ (pc = "chat_except" /\ pc' # "cleanup") =>
       /\ pc' = "chat_input"
       /\ output' = [kind |-> "error", text |-> ErrorText(exc)]
       /\ exc' = "None"

\* C19 as stated: the chat loop is left for cleanup only by reading the word
\* quit, trimmed and in any case, which starts no query; every exception
\* raised while a line is read or a query processed is printed and the loop
\* reads the next line, so a failing read never leads to cleanup.
C19_LoopEndsOnlyOnQuit ==
  [][ /\ QuitEndsLoop
      /\ ErrorsAreReported
      /\ (pc \in ChatPcs \cup QueryPcs /\ pc' = "cleanup") =>
           (pc = "chat_input" /\ exc' = "None" /\ IsQuitWord(query'))
    ]_vars

\* C19 amended: the chat loop is left for cleanup by reading the word quit,
\* trimmed and in any case, which starts no query, or by a BaseException
\* (KeyboardInterrupt, CancelledError), which 'except Exception' does not
\* catch and which is not printed; every other exception raised while a line
\* is read or a query processed (EOFError included) is printed and the loop
\* reads the next line, so a read that fails with EOFError never leads to
\* cleanup.
C19_LoopEndsOnQuitOrBaseException ==
  [][ /\ QuitEndsLoop
      /\ ErrorsAreReported
      /\ (pc \in ChatPcs \cup QueryPcs /\ pc' = "cleanup") =>
           \/ pc = "chat_input" /\ exc' = "None" /\ IsQuitWord(query')
           \/ exc' = "KeyboardInterrupt" /\ output' = NoOutput
    ]_vars

\* The loop was left on the line " Quit " after it had printed the error of
\* a failed read and gone on reading.
C19_Witness ==
  /\ pc = "cleanup"
  /\ exc = "None"
  /\ query = <<"Q", "u", "i", "t">>
  /\ inputsRead >= 1
  /\ output = [kind |-> "error", text |-> ErrorText("EOFError")]
\* ---------------------------------------------------------------- C20 ----
\* The server path given to connect_to_server ends in neither .py nor .js.
RejectedPath ==
  /\ argv # <<>>
  /\ argv[1][Len(argv[1])] # ".py"
  /\ argv[1][Len(argv[1])] # ".js"

ConnectOrder == << "stdio_client", "ClientSession", "initialize", "list_tools" >>

\* C20: with a server path ending in neither .py nor .js, connect_to_server
\* raises ValueError having started no step: no transport opened, nothing on
\* the exit stack, session unset, initialize and list_tools not called, and
\* nothing for cleanup to close. With an accepted path the steps started are
\* at every moment a beginning of: open transport, open client session,
\* initialize, list_tools; ValueError is not raised; and the chat loop runs
\* only after all four.
C20_ValidateBeforeAcquire ==
  /\ RejectedPath =>
       /\ connect_log = <<>>
       /\ exit_stack = <<>>
       /\ session = "None"
       /\ released = <<>>
       /\ listed = <<>>
       /\ pc \in {"main", "connect_validate", "cleanup", "exited"}
       /\ pc \in {"cleanup", "exited"} => exc = "ValueError"
  /\ ~RejectedPath =>
       /\ exc # "ValueError"
       /\ Len(connect_log) <= Len(ConnectOrder)
       /\ connect_log = SubSeq(ConnectOrder, 1, Len(connect_log))
       /\ Len(exit_stack) <= Len(connect_log)
       /\ session # "None" => Len(connect_log) >= 2
       /\ pc \in ChatPcs \cup QueryPcs => connect_log = ConnectOrder

\* main ended after connect_to_server refused the path server.sh.
C20_Witness ==
  /\ argv = << <<"server", ".sh">> >>
  /\ pc = "exited"
  /\ exc = "ValueError"
  /\ cleanupCalls = 1
  /\ connect_log = <<>>
====
